---- MODULE Spec2Model ----
(***************************************************************************)
(* A model of the image optimisation pipeline of src/src/optimize.py.      *)
(*                                                                         *)
(* A bitmap is a record:                                                   *)
(*   size    <<width, height>>                                             *)
(*   mode    the colour mode ("RGB", "RGBA", "L", "LA")                    *)
(*   px      the picture, a grid (sequence of rows) of labels.  For a      *)
(*           small bitmap the grid is the pixel grid itself (one label per *)
(*           pixel, the label being the pixel's source coordinate); for a  *)
(*           large bitmap it is the 2x2 grid of its four quadrants.  The   *)
(*           transposes permute it as the imaging library permutes pixels; *)
(*           resampling and enhancement leave the arrangement alone and    *)
(*           are recorded in fx.                                           *)
(*   fx      the sequence of pixel-changing operations applied so far      *)
(*   exif    the metadata the object carries in its info                   *)
(*   getexif whether the object exposes the _getexif accessor: only the    *)
(*           decoder objects of some formats do, a bitmap produced by      *)
(*           convert, transpose, copy or Image.new never does              *)
(***************************************************************************)
EXTENDS Integers, Sequences, FiniteSets, TLC

VARIABLES
    pc,              \* the stage process_image (or the called function) is at
    cfg,             \* the PipelineConfig
    src,             \* the source file: its path and the bitmap it decodes to
    image,           \* the local variable image
    wm_asset,        \* the watermark file: whether it exists, and its size
    fs,              \* the written files, path -> encoded content
    dirs,            \* the directories created so far
    thumbnail_path,  \* <<>> for None, else <<path>>
    blurred_path,    \* <<>> for None, else <<path>>
    output_path,     \* <<>> before save_webp returned, else <<path>>
    result,          \* the local dictionary result
    ret,             \* <<>> until process_image returns, else <<result>>
    log              \* the stages executed so far, in order

vars == <<pc, cfg, src, image, wm_asset, fs, dirs, thumbnail_path,
          blurred_path, output_path, result, ret, log>>

\* Largest width/height of the bitmaps whose pixels are modelled one by one.
MaxDim == 3

\* Largest padding drawn for the watermark placement.
MaxPad == 1

\* Number of times the encoder is run over the same output path.
MaxRuns == 2

\* Largest width/height drawn for the scaler's images and boxes.
MaxSize == 4

----------------------------------------------------------------------------
(* Dictionaries and small helpers                                          *)

\* dict.get(key, default)
Get(d, k, default) == IF k \in DOMAIN d THEN d[k] ELSE default

Abs(n) == IF n < 0 THEN -n ELSE n

Max(a, b) == IF a >= b THEN a ELSE b

Width(img) == img.size[1]

Height(img) == img.size[2]

NoExif == [has_exif |-> FALSE, orientation |-> <<>>]

\* The picture of a freshly decoded w x h source: one label per pixel (its
\* zero-based coordinate) when small, the four quadrants when large.
SourceGrid(w, h) ==
    IF w <= MaxDim /\ h <= MaxDim
    THEN [y \in 1..h |-> [x \in 1..w |-> <<x - 1, y - 1>>]]
    ELSE [y \in 1..2 |-> [x \in 1..2 |-> <<x - 1, y - 1>>]]

GridW(g) == Len(g[1])

GridH(g) == Len(g)

----------------------------------------------------------------------------
(* Imaging-library primitives used by the pipeline                         *)

\* Image.transpose(FLIP_LEFT_RIGHT)
FLIP_LEFT_RIGHT(img) ==
    [img EXCEPT !.px = [y \in 1..GridH(img.px) |->
                           [x \in 1..GridW(img.px) |->
                               img.px[y][GridW(img.px) + 1 - x]]],
                !.getexif = FALSE]

\* Image.transpose(FLIP_TOP_BOTTOM)
FLIP_TOP_BOTTOM(img) ==
    [img EXCEPT !.px = [y \in 1..GridH(img.px) |->
                           img.px[GridH(img.px) + 1 - y]],
                !.getexif = FALSE]

\* Image.transpose(ROTATE_180)
ROTATE_180(img) ==
    [img EXCEPT !.px = [y \in 1..GridH(img.px) |->
                           [x \in 1..GridW(img.px) |->
                               img.px[GridH(img.px) + 1 - y]
                                     [GridW(img.px) + 1 - x]]],
                !.getexif = FALSE]

\* Image.transpose(ROTATE_90): a quarter turn counterclockwise.
ROTATE_90(img) ==
    [img EXCEPT !.size = <<img.size[2], img.size[1]>>,
                !.px = [y \in 1..GridW(img.px) |->
                           [x \in 1..GridH(img.px) |->
                               img.px[x][GridW(img.px) + 1 - y]]],
                !.getexif = FALSE]

\* Image.transpose(ROTATE_270): a quarter turn clockwise.
ROTATE_270(img) ==
    [img EXCEPT !.size = <<img.size[2], img.size[1]>>,
                !.px = [y \in 1..GridW(img.px) |->
                           [x \in 1..GridH(img.px) |->
                               img.px[GridH(img.px) + 1 - x][y]]],
                !.getexif = FALSE]

\* Image.convert(mode): a new bitmap (a copy when the mode is unchanged) that
\* keeps the info dictionary but is no decoder object any more.
Convert(img, mode) == [img EXCEPT !.mode = mode, !.getexif = FALSE]

\* Image.new(mode, size) followed by paste(image): a fresh bitmap holding the
\* pixels only.
FreshCopy(img) == [img EXCEPT !.exif = NoExif, !.getexif = FALSE]

\* round_aspect of Image.thumbnail: of the floor f and the ceiling c of the
\* ideal length, the one whose aspect ratio is nearer (keys kf and kc; the
\* floor on a tie), and at least 1.
RoundAspect(f, c, kf, kc) == Max(IF kc < kf THEN c ELSE f, 1)

Ceil(num, den) == IF num % den = 0 THEN num \div den ELSE (num \div den) + 1

\* The size Image.thumbnail((bw, bh)) gives a w x h bitmap.  The keys
\* |w/h - n/bh| and |w/h - bw/n| (0 for n = 0) are compared in exact
\* arithmetic, cleared of their denominators.
ThumbnailSize(w, h, bw, bh) ==
    IF bw >= w /\ bh >= h THEN <<w, h>>
    ELSE IF bw * h >= w * bh
    THEN LET f == (bh * w) \div h
             c == Ceil(bh * w, h)
         IN  <<RoundAspect(f, c, Abs(w * bh - f * h), Abs(w * bh - c * h)),
               bh>>
    ELSE LET f == (bw * h) \div w
             c == Ceil(bw * h, w)
         IN  <<bw,
               RoundAspect(f, c,
                           IF f = 0 THEN 0 ELSE Abs(w * f - bw * h) * c,
                           IF c = 0 THEN 0 ELSE Abs(w * c - bw * h) * f)>>

\* Image.thumbnail((bw, bh), LANCZOS): shrinks the bitmap in place.
Thumbnail(img, bw, bh) ==
    LET s == ThumbnailSize(Width(img), Height(img), bw, bh)
    IN  IF s = img.size THEN img
        ELSE [img EXCEPT !.size = s,
                         !.fx = Append(@, [op |-> "resample", args |-> s])]

\* Image.resize(size, LANCZOS)
Resize(img, s) ==
    [img EXCEPT !.size = s, !.getexif = FALSE,
                !.fx = Append(@, [op |-> "resample", args |-> s])]

----------------------------------------------------------------------------
(* fix_orientation                                                         *)

fix_orientation_m6(img, config) ==
    IF ~config.orientation_enabled THEN img
    ELSE IF ~img.getexif \/ ~img.exif.has_exif THEN img
    ELSE IF img.exif.orientation = <<>> THEN img
    ELSE LET orientation == img.exif.orientation[1]
         IN  CASE orientation = 2 -> FLIP_LEFT_RIGHT(img)
               [] orientation = 3 -> ROTATE_180(img)
               [] orientation = 4 -> FLIP_TOP_BOTTOM(img)
               [] orientation = 5 -> ROTATE_90(FLIP_LEFT_RIGHT(img))
               [] orientation = 6 -> ROTATE_90(img)
               [] orientation = 7 -> ROTATE_270(FLIP_LEFT_RIGHT(img))
               [] orientation = 8 -> ROTATE_90(img)
               [] OTHER -> img

fix_orientation(img, config) ==
    IF ~config.orientation_enabled THEN img
    ELSE IF ~img.getexif \/ ~img.exif.has_exif THEN img
    ELSE IF img.exif.orientation = <<>> THEN img
    ELSE LET orientation == img.exif.orientation[1]
         IN  CASE orientation = 2 -> FLIP_LEFT_RIGHT(img)
               [] orientation = 3 -> ROTATE_180(img)
               [] orientation = 4 -> FLIP_TOP_BOTTOM(img)
               [] orientation = 5 -> ROTATE_90(FLIP_LEFT_RIGHT(img))
               [] orientation = 6 -> ROTATE_270(img)
               [] orientation = 7 -> ROTATE_270(FLIP_LEFT_RIGHT(img))
               [] orientation = 8 -> ROTATE_90(img)
               [] OTHER -> img

----------------------------------------------------------------------------
(* fix_colormode                                                           *)

fix_colormode(img, config) ==
    IF ~config.colormode_enabled THEN img
    ELSE IF config.colormode = "RGB" \/ config.colormode = "RGBA"
    THEN IF img.mode = "RGBA" THEN img
         ELSE IF img.mode = "LA" THEN Convert(img, "RGBA")
         ELSE Convert(img, config.colormode)
    ELSE IF config.colormode = "GRAY" THEN Convert(img, "L")
    ELSE Convert(img, config.colormode)

----------------------------------------------------------------------------
(* scale_image                                                             *)

scale_image_upscale(img, config) ==
    IF ~config.scaling_enabled THEN img
    ELSE Resize(img, config.scaling)

scale_image(img, config) ==
    IF ~config.scaling_enabled THEN img
    ELSE IF Width(img) > config.scaling[1] \/ Height(img) > config.scaling[2]
    THEN Thumbnail(img, config.scaling[1], config.scaling[2])
    ELSE img

----------------------------------------------------------------------------
(* adjust_image: factors are in hundredths (100 is 1.0)                    *)

\* ImageEnhance.<kind>(image).enhance(factor)
Enhance(img, kind, factor) ==
    [img EXCEPT !.getexif = FALSE,
                !.fx = Append(@, [op |-> kind, args |-> <<factor>>])]

adjust_image(img, config) ==
    IF ~config.adjustments_enabled THEN img
    ELSE LET adjustments == config.adjustments
             b == IF Get(adjustments, "brightness", 100) # 100
                  THEN Enhance(img, "brightness", adjustments["brightness"])
                  ELSE img
             c == IF Get(adjustments, "contrast", 100) # 100
                  THEN Enhance(b, "contrast", adjustments["contrast"])
                  ELSE b
         IN  IF Get(adjustments, "sharpness", 100) # 100
             THEN Enhance(c, "sharpness", adjustments["sharpness"])
             ELSE c

----------------------------------------------------------------------------
(* add_watermark: opacity and resize_percentage are in hundredths          *)

\* The size of the watermark after the optional percentage resize.
WatermarkSize(img, watermark_config, asset) ==
    IF Get(watermark_config, "resize_percentage", 0) > 0
    THEN LET wm_width == (Width(img) * watermark_config["resize_percentage"])
                             \div 100
         IN  <<wm_width, (asset.size[2] * wm_width) \div asset.size[1]>>
    ELSE asset.size

WatermarkPos_clamped(img, watermark_config, wm) ==
    LET position == Get(watermark_config, "position", "bottom-right")
        padding == Get(watermark_config, "padding", 10)
    IN  CASE position = "top-left" -> <<padding, padding>>
          [] position = "top-right" ->
                 <<Max(Width(img) - wm[1] - padding, 0), padding>>
          [] position = "bottom-left" ->
                 <<padding, Max(Height(img) - wm[2] - padding, 0)>>
          [] position = "bottom-right" ->
                 <<Max(Width(img) - wm[1] - padding, 0),
                   Max(Height(img) - wm[2] - padding, 0)>>
          [] position = "center" ->
                 <<Max((Width(img) - wm[1]) \div 2, 0),
                   Max((Height(img) - wm[2]) \div 2, 0)>>
          [] OTHER -> <<padding, padding>>

\* The paste offset of a watermark of size wm.
WatermarkPos(img, watermark_config, wm) ==
    LET position == Get(watermark_config, "position", "bottom-right")
        padding == Get(watermark_config, "padding", 10)
    IN  CASE position = "top-left" -> <<padding, padding>>
          [] position = "top-right" ->
                 <<Width(img) - wm[1] - padding, padding>>
          [] position = "bottom-left" ->
                 <<padding, Height(img) - wm[2] - padding>>
          [] position = "bottom-right" ->
                 <<Width(img) - wm[1] - padding,
                   Height(img) - wm[2] - padding>>
          [] position = "center" ->
                 <<(Width(img) - wm[1]) \div 2, (Height(img) - wm[2]) \div 2>>
          [] OTHER -> <<padding, padding>>

\* The composite: the watermark of size wm pasted at pos with its alpha
\* scaled to alpha hundredths, flattened to RGB.
Composite(img, wm, pos, alpha) ==
    [img EXCEPT !.mode = "RGB", !.getexif = FALSE,
                !.fx = Append(@, [op |-> "watermark",
                                  args |-> <<pos[1], pos[2], wm[1], wm[2],
                                             alpha>>])]

add_watermark_noexists(img, config, asset) ==
    LET watermark_config == config.watermark
    IN  IF ~Get(watermark_config, "enabled", FALSE) THEN img
        ELSE LET wm == WatermarkSize(img, watermark_config, asset)
                 pos == WatermarkPos(img, watermark_config, wm)
                 target_opacity == watermark_config["opacity"]
             IN  Composite(img, wm, pos,
                           IF target_opacity < 100 THEN target_opacity
                           ELSE 100)

add_watermark(img, config, asset) ==
    LET watermark_config == config.watermark
    IN  IF ~Get(watermark_config, "enabled", FALSE) THEN img
        ELSE IF ~asset.exists THEN img
        ELSE LET wm == WatermarkSize(img, watermark_config, asset)
                 pos == WatermarkPos(img, watermark_config, wm)
                 target_opacity == watermark_config["opacity"]
             IN  Composite(img, wm, pos,
                           IF target_opacity < 100 THEN target_opacity
                           ELSE 100)

----------------------------------------------------------------------------
(* Output paths and the encoder                                            *)
(* A path is [dir, name]; a name is a sequence of tokens, "." among them.  *)

\* The index of the last "." of a name, 0 when it has none (str.rfind + 1).
RECURSIVE RFindDot(_, _)
RFindDot(name, i) ==
    IF i = 0 THEN 0
    ELSE IF name[i] = "." THEN i
    ELSE RFindDot(name, i - 1)

\* Path.stem: the name without its last suffix; a leading or trailing dot
\* starts no suffix.
Stem(name) ==
    LET i == RFindDot(name, Len(name))
    IN  IF 1 < i /\ i < Len(name) THEN SubSeq(name, 1, i - 1) ELSE name

\* output_dir is <<>> for None, else <<dir>> (a Path object is always true).
OutputDirOf(config, output_dir) ==
    IF output_dir = <<>> THEN config["path"] ELSE output_dir[1]

generate_output_path_nosuffix(config, file_path, output_dir) ==
    [dir |-> OutputDirOf(config, output_dir),
     name |-> Stem(file_path.name) \o <<".", "webp">>]

\* The path generate_output_path returns; the directory it creates is
\* OutputDirOf(config, output_dir).
generate_output_path(config, file_path, output_dir) ==
    [dir |-> OutputDirOf(config, output_dir),
     name |-> Stem(file_path.name) \o Get(config, "suffix", <<>>)
                  \o <<".", "webp">>]

\* Image.save(path, format="WEBP"): the file's content.  The encoder is taken
\* to write whatever metadata the bitmap it is handed carries.
Encode(img) ==
    [size |-> img.size, mode |-> img.mode, px |-> img.px, fx |-> img.fx,
     exif |-> img.exif]

\* dict with key k set to v
Put(d, k, v) == [q \in DOMAIN d \cup {k} |-> IF q = k THEN v ELSE d[q]]

\* The bitmap save_webp encodes.
clean_img_dirty(img) == img

clean_img(img) == FreshCopy(img)

recreate_resize_image(img, config) ==
    Thumbnail(FreshCopy(img), config["width"], config["height"])

\* ImageFilter.GaussianBlur(radius)
GaussianBlur(img, radius) ==
    [img EXCEPT !.getexif = FALSE,
                !.fx = Append(@, [op |-> "blur", args |-> <<radius>>])]

\* The bitmap create_thumbnail saves.
ThumbnailBitmap(img, config) == recreate_resize_image(img, config.thumbnail)

\* The bitmap create_blurred saves.
BlurredBitmap(img, config) ==
    GaussianBlur(recreate_resize_image(img, config.blur), config.blur["radius"])

----------------------------------------------------------------------------
(* process_image                                                           *)

Stages_scale_first ==
    <<"Load", "ColorFix", "OrientationFix", "Scale", "Thumbnail", "Blur",
      "Adjust", "Watermark", "Encode", "AssembleResult">>

Stages_derivatives_last ==
    <<"Load", "ColorFix", "OrientationFix", "Scale", "Adjust", "Watermark",
      "Encode", "Thumbnail", "Blur", "AssembleResult">>

\* The statements of process_image, in program order.
Stages ==
    <<"Load", "ColorFix", "OrientationFix", "Thumbnail", "Blur", "Scale",
      "Adjust", "Watermark", "Encode", "AssembleResult">>

StageIndex(s) == CHOOSE i \in 1..Len(Stages) : Stages[i] = s

\* Where control goes when stage s completes.
After(s) ==
    IF StageIndex(s) = Len(Stages) THEN "done"
    ELSE Stages[StageIndex(s) + 1]

Advance(s) ==
    /\ pc = s
    /\ pc' = After(s)
    /\ log' = Append(log, s)

\* image = Image.open(image_path), after result was seeded with the source.
Load ==
    /\ Advance("Load")
    /\ result' = [k \in {"source"} |-> src.path]
    /\ image' = src.image
    /\ UNCHANGED <<cfg, src, wm_asset, fs, dirs, thumbnail_path,
                   blurred_path, output_path, ret>>

ColorFix ==
    /\ Advance("ColorFix")
    /\ image' = fix_colormode(image, cfg)
    /\ UNCHANGED <<cfg, src, wm_asset, fs, dirs, thumbnail_path,
                   blurred_path, output_path, result, ret>>

OrientationFix ==
    /\ Advance("OrientationFix")
    /\ image' = fix_orientation(image, cfg)
    /\ UNCHANGED <<cfg, src, wm_asset, fs, dirs, thumbnail_path,
                   blurred_path, output_path, result, ret>>

\* thumbnail_path = create_thumbnail(image, image_path, config)
CreateThumbnail ==
    /\ Advance("Thumbnail")
    /\ IF ~Get(cfg.thumbnail, "enabled", FALSE)
       THEN /\ thumbnail_path' = <<>>
            /\ UNCHANGED <<fs, dirs>>
       ELSE LET path == generate_output_path(cfg.thumbnail, src.path, <<>>)
            IN  /\ fs' = Put(fs, path, Encode(ThumbnailBitmap(image, cfg)))
                /\ dirs' = dirs \cup {path.dir}
                /\ thumbnail_path' = <<path>>
    /\ UNCHANGED <<cfg, src, image, wm_asset, blurred_path, output_path,
                   result, ret>>

\* blurred_path = create_blurred(image, image_path, config)
CreateBlurred ==
    /\ Advance("Blur")
    /\ IF ~Get(cfg.blur, "enabled", FALSE)
       THEN /\ blurred_path' = <<>>
            /\ UNCHANGED <<fs, dirs>>
       ELSE LET path == generate_output_path(cfg.blur, src.path, <<>>)
            IN  /\ fs' = Put(fs, path, Encode(BlurredBitmap(image, cfg)))
                /\ dirs' = dirs \cup {path.dir}
                /\ blurred_path' = <<path>>
    /\ UNCHANGED <<cfg, src, image, wm_asset, thumbnail_path, output_path,
                   result, ret>>

Scale ==
    /\ Advance("Scale")
    /\ image' = scale_image(image, cfg)
    /\ UNCHANGED <<cfg, src, wm_asset, fs, dirs, thumbnail_path,
                   blurred_path, output_path, result, ret>>

Adjust ==
    /\ Advance("Adjust")
    /\ image' = adjust_image(image, cfg)
    /\ UNCHANGED <<cfg, src, wm_asset, fs, dirs, thumbnail_path,
                   blurred_path, output_path, result, ret>>

Watermark ==
    /\ Advance("Watermark")
    /\ image' = add_watermark(image, cfg, wm_asset)
    /\ UNCHANGED <<cfg, src, wm_asset, fs, dirs, thumbnail_path,
                   blurred_path, output_path, result, ret>>

\* output_path = save_webp(image, image_path, config)
SaveWebp ==
    /\ Advance("Encode")
    /\ LET path == generate_output_path(cfg.webp_settings, src.path,
                                        <<cfg.output_dir>>)
       IN  /\ fs' = Put(fs, path, Encode(clean_img(image)))
           /\ dirs' = dirs \cup {path.dir}
           /\ output_path' = <<path>>
    /\ UNCHANGED <<cfg, src, image, wm_asset, thumbnail_path, blurred_path,
                   result, ret>>

\* The result dictionary is completed and returned (the byte sizes it also
\* carries are left out).
AssembleResult ==
    /\ Advance("AssembleResult")
    /\ LET r1 == Put(result, "optimized", output_path[1])
           r2 == IF thumbnail_path # <<>>
                 THEN Put(r1, "thumbnail", thumbnail_path[1]) ELSE r1
           r3 == IF blurred_path # <<>>
                 THEN Put(r2, "blurred", blurred_path[1]) ELSE r2
       IN  /\ result' = r3
           /\ ret' = <<r3>>
    /\ UNCHANGED <<cfg, src, image, wm_asset, fs, dirs, thumbnail_path,
                   blurred_path, output_path>>

\* The directory a writing stage creates before it writes.
StageDir(s) ==
    CASE s = "Thumbnail" /\ Get(cfg.thumbnail, "enabled", FALSE) ->
             {cfg.thumbnail["path"]}
      [] s = "Blur" /\ Get(cfg.blur, "enabled", FALSE) -> {cfg.blur["path"]}
      [] s = "Encode" -> {cfg.output_dir}
      [] OTHER -> {}

\* A stage raises (an unreadable source, a failed write, an error inside the
\* imaging library): process_image catches nothing, so the exception leaves
\* it at once.  A writing stage may have created its directory already.
Raise ==
    /\ pc \in {Stages[i] : i \in 1..Len(Stages)}
    /\ pc' = "raised"
    /\ \E d \in {dirs, dirs \cup StageDir(pc)} : dirs' = d
    /\ UNCHANGED <<cfg, src, image, wm_asset, fs, thumbnail_path,
                   blurred_path, output_path, result, ret, log>>

----------------------------------------------------------------------------
(* Inputs                                                                  *)

Bitmap(w, h, mode, exif, getexif) ==
    [size |-> <<w, h>>, mode |-> mode, px |-> SourceGrid(w, h), fx |-> <<>>,
     exif |-> exif, getexif |-> getexif]

Tagged(t) == [has_exif |-> TRUE, orientation |-> <<t>>]

Untagged == [has_exif |-> TRUE, orientation |-> <<>>]

SourcePath == [dir |-> "in", name |-> <<"photo", ".", "jpg">>]

WatermarkOff == [path |-> "wm.png", position |-> "bottom-right",
                 padding |-> 10, opacity |-> 50]

WatermarkOn == [enabled |-> TRUE, path |-> "wm.png",
                position |-> "bottom-right", padding |-> 10, opacity |-> 50]

Derivative(enabled, dir, suffix, w, h) ==
    [enabled |-> enabled, path |-> dir, suffix |-> <<suffix>>,
     width |-> w, height |-> h, radius |-> 2]

\* A configuration with every optional stage switched off.
BaseConfig ==
    [orientation_enabled |-> FALSE,
     colormode |-> "RGB",
     colormode_enabled |-> FALSE,
     scaling_enabled |-> FALSE,
     scaling |-> <<1920, 1080>>,
     adjustments_enabled |-> FALSE,
     adjustments |-> [brightness |-> 120, contrast |-> 100],
     watermark |-> WatermarkOff,
     webp_settings |-> [quality |-> 80],
     thumbnail |-> Derivative(FALSE, "out/thumbs", "_thumb", 300, 300),
     blur |-> Derivative(FALSE, "out/blur", "_blur", 64, 64),
     input_dir |-> "in",
     output_dir |-> "out"]

\* The configurations of the pipeline runs.
PipelineConfigs ==
    {[BaseConfig EXCEPT !.orientation_enabled = oe,
                        !.colormode_enabled = ce,
                        !.colormode = cm,
                        !.scaling_enabled = se,
                        !.adjustments_enabled = ae,
                        !.watermark = wm,
                        !.thumbnail.enabled = te,
                        !.blur.enabled = be] :
        oe \in BOOLEAN, ce \in BOOLEAN, cm \in {"RGB", "GRAY"},
        se \in BOOLEAN, ae \in BOOLEAN, wm \in {WatermarkOff, WatermarkOn},
        te \in BOOLEAN, be \in BOOLEAN}

\* The decoded sources of the pipeline runs: JPEG-like (RGB, with the EXIF
\* accessor), PNG-like (RGBA, with the accessor), BMP-like (no accessor).
PipelineBitmaps ==
    {Bitmap(s[1], s[2], "RGB", e, TRUE) :
        s \in {<<4000, 3000>>, <<2, 3>>},
        e \in {NoExif, Untagged, Tagged(1), Tagged(3), Tagged(6), Tagged(8)}}
    \cup {Bitmap(s[1], s[2], "RGBA", e, TRUE) :
        s \in {<<4000, 3000>>, <<2, 3>>}, e \in {NoExif, Tagged(6)}}
    \cup {Bitmap(s[1], s[2], "RGB", NoExif, FALSE) :
        s \in {<<4000, 3000>>, <<2, 3>>}}

Init ==
    /\ pc = "Load"
    /\ cfg \in PipelineConfigs
    /\ src \in {[path |-> SourcePath, image |-> b] : b \in PipelineBitmaps}
    /\ image = src.image
    /\ wm_asset \in {[exists |-> e, size |-> <<64, 64>>] : e \in BOOLEAN}
    /\ fs = <<>>
    /\ dirs = {}
    /\ thumbnail_path = <<>>
    /\ blurred_path = <<>>
    /\ output_path = <<>>
    /\ result = <<>>
    /\ ret = <<>>
    /\ log = <<>>

Next ==
    \/ Load
    \/ ColorFix
    \/ OrientationFix
    \/ CreateThumbnail
    \/ CreateBlurred
    \/ Scale
    \/ Adjust
    \/ Watermark
    \/ SaveWebp
    \/ AssembleResult
    \/ Raise

Spec == Init /\ [][Next]_vars

----------------------------------------------------------------------------
(* Properties of process_image (specification Spec)                        *)

IsDerivativeFree(f) ==
    \A i \in 1..Len(f.fx) :
        f.fx[i].op \notin {"brightness", "contrast", "sharpness", "watermark"}

\* The image the derivatives are meant to be computed from: the source after
\* the colour-mode fix and the orientation fix only.
Corrected == fix_orientation(fix_colormode(src.image, cfg), cfg)

\* The scenario of the end-to-end example: a 4000x3000 source with orientation
\* tag 6, orientation and scaling (1920x1080) on, watermark and adjustments off.
EndToEndScenario ==
    /\ src.image.size = <<4000, 3000>>
    /\ src.image.getexif
    /\ src.image.exif = Tagged(6)
    /\ cfg.orientation_enabled
    /\ cfg.scaling_enabled
    /\ cfg.scaling = <<1920, 1080>>
    /\ ~Get(cfg.watermark, "enabled", FALSE)
    /\ ~cfg.adjustments_enabled

\* C1: in the end-to-end scenario, whatever colormode_enabled / colormode are,
\* the primary WebP shows the tag-6-corrected view of the source (scaled from
\* the 3000x4000 corrected image) and its long edge is at most 1920.
C1_EndToEndCorrected ==
    (pc = "done" /\ EndToEndScenario) =>
        LET f == fs[output_path[1]]
        IN  /\ f.px = [y \in 1..2 |-> [x \in 1..2 |-> src.image.px[3 - x][y]]]
            /\ f.size = ThumbnailSize(3000, 4000, 1920, 1080)
            /\ Max(f.size[1], f.size[2]) <= 1920

\* C2: the thumbnail and the blurred derivative are computed from the
\* colour-fixed, orientation-fixed image and their own config section only
\* (so they do not vary with the scaling, adjustment or watermark settings)
\* and never carry an adjustment or the watermark.
C2_DerivativesFromCorrected ==
    /\ thumbnail_path # <<>> =>
           /\ fs[thumbnail_path[1]] =
                  Encode(Thumbnail(FreshCopy(Corrected),
                                   cfg.thumbnail["width"],
                                   cfg.thumbnail["height"]))
           /\ IsDerivativeFree(fs[thumbnail_path[1]])
    /\ blurred_path # <<>> =>
           /\ fs[blurred_path[1]] =
                  Encode(GaussianBlur(Thumbnail(FreshCopy(Corrected),
                                                cfg.blur["width"],
                                                cfg.blur["height"]),
                                      cfg.blur["radius"]))
           /\ IsDerivativeFree(fs[blurred_path[1]])

\* C2 witness: a finished run whose primary output was scaled, adjusted and
\* watermarked while both derivatives were written.
C2_Witness ==
    /\ pc = "done"
    /\ thumbnail_path # <<>>
    /\ blurred_path # <<>>
    /\ LET f == fs[output_path[1]]
       IN  /\ \E i \in 1..Len(f.fx) : f.fx[i].op = "resample"
           /\ \E i \in 1..Len(f.fx) : f.fx[i].op = "brightness"
           /\ \E i \in 1..Len(f.fx) : f.fx[i].op = "watermark"

ThumbnailFile == generate_output_path(cfg.thumbnail, src.path, <<>>)

BlurredFile == generate_output_path(cfg.blur, src.path, <<>>)

PrimaryFile ==
    generate_output_path(cfg.webp_settings, src.path, <<cfg.output_dir>>)

\* C3: the stages run in the order Load, ColorFix, OrientationFix, Thumbnail,
\* Blur, Scale, Adjust, Watermark, Encode, AssembleResult, each at most once;
\* the enabled derivative files exist when the primary output is written; and
\* when a stage raises, nothing is returned and the derivative files written
\* so far stay on disk.
C3_LinearNoRollback ==
    LET order == <<"Load", "ColorFix", "OrientationFix", "Thumbnail", "Blur",
                   "Scale", "Adjust", "Watermark", "Encode",
                   "AssembleResult">>
        done(s) == \E i \in 1..Len(log) : log[i] = s
    IN  /\ Len(log) <= Len(order)
        /\ log = SubSeq(order, 1, Len(log))
        /\ pc \in {"done", "raised"} \/ (Len(log) < Len(order)
                                          /\ pc = order[Len(log) + 1])
        /\ PrimaryFile \in DOMAIN fs =>
               /\ Get(cfg.thumbnail, "enabled", FALSE) =>
                      ThumbnailFile \in DOMAIN fs
               /\ Get(cfg.blur, "enabled", FALSE) => BlurredFile \in DOMAIN fs
        /\ ret # <<>> => pc = "done"
        /\ pc = "raised" =>
               /\ ret = <<>>
               /\ (done("Thumbnail") /\ Get(cfg.thumbnail, "enabled", FALSE))
                      => ThumbnailFile \in DOMAIN fs
               /\ (done("Blur") /\ Get(cfg.blur, "enabled", FALSE))
                      => BlurredFile \in DOMAIN fs
               /\ PrimaryFile \in DOMAIN fs <=> done("Encode")

\* C3 witness: the encoder raised after both derivatives were written.
C3_Witness ==
    /\ pc = "raised"
    /\ Len(log) = 8
    /\ thumbnail_path # <<>> /\ thumbnail_path[1] \in DOMAIN fs
    /\ blurred_path # <<>> /\ blurred_path[1] \in DOMAIN fs
    /\ PrimaryFile \notin DOMAIN fs
    /\ ret = <<>>

\* C6: the blurred derivative has exactly the configured width and height.
C6_BlurExactSize ==
    blurred_path # <<>> =>
        fs[blurred_path[1]].size = <<cfg.blur["width"], cfg.blur["height"]>>

\* C10: no written file (primary, thumbnail, blurred) carries metadata: each
\* is encoded from a fresh bitmap into which only pixels were copied.
C10_NoMetadataWritten ==
    \A p \in DOMAIN fs : fs[p].exif = NoExif

\* C10 witness: a finished run over a source with EXIF metadata, still carried
\* by the in-memory image, with all three files written.
C10_Witness ==
    /\ pc = "done"
    /\ src.image.exif.has_exif
    /\ image.exif.has_exif
    /\ {PrimaryFile, ThumbnailFile, BlurredFile} \subseteq DOMAIN fs
    /\ Cardinality(DOMAIN fs) = 3

----------------------------------------------------------------------------
(* The stage functions called on their own                                 *)

\* The state before a single call of a stage function on source s.
BeforeCall(c, s, w) ==
    /\ pc = "call"
    /\ cfg = c
    /\ src = s
    /\ image = s.image
    /\ wm_asset = w
    /\ fs = <<>>
    /\ thumbnail_path = <<>>
    /\ blurred_path = <<>>
    /\ output_path = <<>>
    /\ result = <<>>
    /\ ret = <<>>
    /\ log = <<>>

NoAsset == [exists |-> FALSE, size |-> <<1, 1>>]

Returns(img) ==
    /\ pc = "call"
    /\ pc' = "returned"
    /\ image' = img
    /\ UNCHANGED <<cfg, src, wm_asset, fs, dirs, thumbnail_path,
                   blurred_path, output_path, result, ret, log>>

(* fix_orientation over every small bitmap and every tag *)

OrientBitmaps ==
    {Bitmap(w, h, "RGB", e, g) :
        w \in 1..MaxDim, h \in 1..MaxDim,
        e \in {NoExif, Untagged} \cup {Tagged(t) : t \in 0..9},
        g \in BOOLEAN}

InitOrient ==
    \E oe \in BOOLEAN, b \in OrientBitmaps :
        /\ BeforeCall([BaseConfig EXCEPT !.orientation_enabled = oe],
                      [path |-> SourcePath, image |-> b], NoAsset)
        /\ dirs = {}

CallFixOrientation == Returns(fix_orientation(image, cfg))

SpecOrient == InitOrient /\ [][CallFixOrientation]_vars

(* scale_image over every small size and box, and the example sizes *)

ScaleSizes ==
    {<<w, h>> : w \in 1..MaxSize, h \in 1..MaxSize}
        \cup {<<4000, 3000>>, <<3000, 4000>>, <<1920, 1080>>, <<1921, 7>>}

InitScale ==
    \E se \in BOOLEAN, s \in ScaleSizes, box \in ScaleSizes :
        /\ BeforeCall([BaseConfig EXCEPT !.scaling_enabled = se,
                                         !.scaling = box],
                      [path |-> SourcePath,
                       image |-> Bitmap(s[1], s[2], "RGB", NoExif, TRUE)],
                      NoAsset)
        /\ dirs = {}

CallScaleImage == Returns(scale_image(image, cfg))

SpecScale == InitScale /\ [][CallScaleImage]_vars

(* add_watermark over every placement *)

WatermarkSizes ==
    {<<w, h>> : w \in 1..MaxDim, h \in 1..MaxDim}

WatermarkConfigs ==
    LET core == {[path |-> "wm.png", position |-> p, padding |-> d,
                  opacity |-> o] :
                    p \in {"top-left", "top-right", "bottom-left",
                           "bottom-right", "center", "middle"},
                    d \in (0..MaxPad) \cup {10},
                    o \in {50, 100}}
        sized == core \cup {Put(c, "resize_percentage", 150) : c \in core}
    IN  sized \cup {Put(c, "enabled", e) : c \in sized, e \in BOOLEAN}

InitWatermark ==
    \E wc \in WatermarkConfigs,
       s \in WatermarkSizes \cup {<<1000, 800>>},
       a \in {[exists |-> e, size |-> z] :
                 e \in BOOLEAN, z \in WatermarkSizes \cup {<<100, 50>>}},
       m \in {"RGB", "RGBA"} :
        /\ BeforeCall([BaseConfig EXCEPT !.watermark = wc],
                      [path |-> SourcePath,
                       image |-> Bitmap(s[1], s[2], m, NoExif, TRUE)], a)
        \* the resized watermark is at least 1x1, so the resize succeeds
        /\ WatermarkSize(image, wc, a)[1] >= 1
        /\ WatermarkSize(image, wc, a)[2] >= 1
        /\ dirs = {}

CallAddWatermark == Returns(add_watermark(image, cfg, wm_asset))

SpecWatermark == InitWatermark /\ [][CallAddWatermark]_vars

(* save_webp run again and again over the same source name *)

EncodeNames ==
    {<<"a">>, <<"a", ".", "jpg">>, <<"a", ".", "b", ".", "png">>,
     <<".", "a">>, <<"a", ".">>, <<".", "a", ".", "jpg">>}

EncodeBitmaps ==
    {Bitmap(2, 1, m, e, TRUE) : m \in {"RGB", "L"}, e \in {NoExif, Tagged(6)}}

InitEncode ==
    \E n \in EncodeNames, b \in EncodeBitmaps,
       ws \in {[quality |-> 80], [quality |-> 80, suffix |-> <<"_opt">>]},
       od \in {"out", "www/img"} :
        /\ BeforeCall([BaseConfig EXCEPT !.webp_settings = ws,
                                         !.output_dir = od],
                      [path |-> [dir |-> "in", name |-> n], image |-> b],
                      NoAsset)
        /\ dirs \in SUBSET {"out"}

\* One run of save_webp on the current content of the source file, which may
\* have changed since the last run.
CallSaveWebp ==
    /\ pc \in {"call", "returned"}
    /\ Len(log) < MaxRuns
    /\ \E b \in EncodeBitmaps :
        LET path == generate_output_path(cfg.webp_settings, src.path,
                                         <<cfg.output_dir>>)
        IN  /\ image' = b
            /\ fs' = Put(fs, path, Encode(clean_img(b)))
            /\ dirs' = dirs \cup {path.dir}
            /\ output_path' = <<path>>
    /\ pc' = "returned"
    /\ log' = Append(log, "Encode")
    /\ UNCHANGED <<cfg, src, wm_asset, thumbnail_path, blurred_path,
                   result, ret>>

SpecEncode == InitEncode /\ [][CallSaveWebp]_vars

----------------------------------------------------------------------------
(* Properties of the stage functions                                       *)

\* The label at zero-based position (x, y) of a bitmap's picture.
Pix(img, x, y) == img.px[y + 1][x + 1]

C5_ScaleNeverGrows ==
    pc = "returned" =>
        LET a == src.image
            within == /\ Width(a) <= cfg.scaling[1]
                      /\ Height(a) <= cfg.scaling[2]
        IN  /\ Width(image) <= Width(a)
            /\ Height(image) <= Height(a)
            /\ Width(image) >= 1 /\ Height(image) >= 1
            /\ (cfg.scaling_enabled /\ ~within) =>
                   /\ Width(image) <= cfg.scaling[1]
                   /\ Height(image) <= cfg.scaling[2]
            /\ (~cfg.scaling_enabled \/ within) => image = a

\* C5 witness: a 4000x3000 image was scaled into the 1920x1080 box.
C5_Witness ==
    /\ pc = "returned"
    /\ cfg.scaling_enabled
    /\ src.image.size = <<4000, 3000>>
    /\ cfg.scaling = <<1920, 1080>>
    /\ image.size = <<1440, 1080>>

\* C7: for a W x H image, a watermark of size (w, h) after the optional
\* resize and padding p, the paste offset is (p, p) for top-left,
\* (W-w-p, p) for top-right, (p, H-h-p) for bottom-left, (W-w-p, H-h-p) for
\* bottom-right, (floor((W-w)/2), floor((H-h)/2)) for center and (p, p) for
\* any other position, never clamped; bottom-right with p = 10 on 1000x800
\* with a 100x50 watermark gives (890, 740).
C7_WatermarkOffset ==
    (/\ pc = "returned"
     /\ Get(cfg.watermark, "enabled", FALSE)
     /\ wm_asset.exists) =>
        LET W == Width(src.image)
            H == Height(src.image)
            e == image.fx[Len(image.fx)]
            w == e.args[3]
            h == e.args[4]
            p == cfg.watermark["padding"]
            position == cfg.watermark["position"]
            pos == <<e.args[1], e.args[2]>>
        IN  /\ e.op = "watermark"
            /\ "resize_percentage" \notin DOMAIN cfg.watermark =>
                   <<w, h>> = wm_asset.size
            /\ position = "top-left" => pos = <<p, p>>
            /\ position = "top-right" => pos = <<W - w - p, p>>
            /\ position = "bottom-left" => pos = <<p, H - h - p>>
            /\ position = "bottom-right" => pos = <<W - w - p, H - h - p>>
            /\ position = "center" =>
                   /\ 2 * pos[1] <= W - w /\ W - w < 2 * pos[1] + 2
                   /\ 2 * pos[2] <= H - h /\ H - h < 2 * pos[2] + 2
            /\ position \notin {"top-left", "top-right", "bottom-left",
                                "bottom-right", "center"} => pos = <<p, p>>
            /\ (/\ position = "bottom-right" /\ p = 10
                /\ <<W, H>> = <<1000, 800>> /\ <<w, h>> = <<100, 50>>) =>
                   pos = <<890, 740>>

\* C7 witness: the 1000x800 example, pasted at (890, 740).
C7_Witness ==
    /\ pc = "returned"
    /\ cfg.watermark = Put(WatermarkOff, "enabled", TRUE)
    /\ wm_asset = [exists |-> TRUE, size |-> <<100, 50>>]
    /\ src.image.size = <<1000, 800>>
    /\ image.fx = <<[op |-> "watermark",
                     args |-> <<890, 740, 100, 50, 50>>]>>

\* C8: with the watermark disabled (enabled false or absent) or the asset
\* file missing, add_watermark returns its input unchanged, whatever the
\* position, padding, opacity and resize_percentage.
C8_WatermarkNoOp ==
    (/\ pc = "returned"
     /\ ~Get(cfg.watermark, "enabled", FALSE) \/ ~wm_asset.exists) =>
        image = src.image

\* C8 witness: the watermark is enabled with a resize percentage, the asset
\* is missing, and the RGBA input came back as it was.
C8_Witness ==
    /\ pc = "returned"
    /\ Get(cfg.watermark, "enabled", FALSE)
    /\ "resize_percentage" \in DOMAIN cfg.watermark
    /\ ~wm_asset.exists
    /\ src.image.mode = "RGBA"
    /\ image = src.image

\* C9: the primary output path is output_dir / (stem + optional suffix +
\* ".webp"), the same on every run for the same source name and
\* configuration; the output directory exists before the write; a rerun
\* overwrites the one file.
C9_OutputPathDeterministic ==
    output_path # <<>> =>
        LET n == src.path.name
            p == output_path[1]
            suffix == IF "suffix" \in DOMAIN cfg.webp_settings
                      THEN cfg.webp_settings["suffix"] ELSE <<>>
            \* n is s, a dot, and a last dot-free portion
            splits(k) == /\ 1 <= k /\ k + 2 <= Len(n)
                         /\ n[k + 1] = "."
                         /\ \A i \in (k + 2)..Len(n) : n[i] # "."
            stem(k) == \/ splits(k)
                       \/ k = Len(n) /\ ~\E j \in 0..Len(n) : splits(j)
        IN  /\ p.dir = cfg.output_dir
            /\ \E k \in 0..Len(n) :
                   /\ stem(k)
                   /\ p.name = SubSeq(n, 1, k) \o suffix \o <<".", "webp">>
            /\ p.dir \in dirs
            /\ DOMAIN fs = {p}
            /\ fs[p] = [size |-> image.size, mode |-> image.mode,
                        px |-> image.px, fx |-> image.fx, exif |-> NoExif]

\* C9 witness: a second run over a dotted name with a suffix overwrote the
\* single output file with new content.
C9_Witness ==
    /\ Len(log) >= 2
    /\ src.path.name = <<"a", ".", "b", ".", "png">>
    /\ output_path =
           <<[dir |-> "www/img",
              name |-> <<"a", ".", "b", "_opt", ".", "webp">>]>>
    /\ Cardinality(DOMAIN fs) = 1
    /\ image.mode # src.image.mode
    /\ fs[output_path[1]].mode = image.mode

====
